---- MODULE Spec2Model ----
(***************************************************************************)
(* People counter: the detection-count smoothing of PersonDetector.recv,   *)
(* the announcement gate PersonDetector.can_announce and the polling loop  *)
(* of src/main.py.  recv runs on the stream's worker thread, the polling   *)
(* loop on the script thread; they share person_count and cooldown_frames  *)
(* without any lock, so every access of a shared attribute is a step of    *)
(* its own.                                                                *)
(***************************************************************************)
EXTENDS Integers, Sequences, FiniteSets

VARIABLES
    person_count,          \* PersonDetector.person_count
    frame_count,           \* PersonDetector.frame_count, kept modulo Stride
    detection_history,     \* PersonDetector.detection_history, deque(maxlen=5)
    last_announced_count,  \* PersonDetector.last_announced_count
    cooldown_frames,       \* PersonDetector.cooldown_frames
    audio_enabled,         \* st.session_state.audio_enabled
    audio_base64,          \* keys of the audio map that load_audio_base64 loaded
    audio_placeholder,     \* element held by audio_placeholder: <<>> or <<count>>
    playing,               \* ctx.state.playing
    detectable,            \* raw counts the detector can return in this session
    recvPc,                \* position of the worker thread inside recv
    recvTmp,               \* value recv loaded for "cooldown_frames -= 1"
    pollPc,                \* position of the script thread in the polling loop
    current_count,         \* local current_count of the polling loop
    announce,              \* value returned by can_announce in this cycle
    ticks,                 \* history: sampled frames finished since the last firing,
                           \*   counted up to cooldown_length
    steady,                \* history: person_count has equalled the announced count
                           \*   ever since the last firing
    plays                  \* history: audio_player calls since the last firing,
                           \*   counted up to 2

vars == <<person_count, frame_count, detection_history, last_announced_count,
          cooldown_frames, audio_enabled, audio_base64, audio_placeholder,
          playing, detectable, recvPc, recvTmp, pollPc, current_count,
          announce, ticks, steady, plays>>

------------------------------------------------------------------------------
\* Program constants

MaxCount == 5

HistoryMaxLen == 5

cooldown_length == 15

Stride == 2

AudioKeys == 1..5

\* Bounds of the model

MaxPeople == 2

MaxRaw == 6

------------------------------------------------------------------------------
\* Pure helpers

Min(a, b) == IF a < b THEN a ELSE b

\* count = min(count, 5)
Clamp(count) == Min(count, MaxCount)

\* deque(maxlen=5).append: the oldest element leaves when the deque is full
DequeAppend(d, x) ==
    IF Len(d) = HistoryMaxLen THEN Append(Tail(d), x) ELSE Append(d, x)

RECURSIVE Insert(_, _)
Insert(s, x) ==
    IF s = <<>> THEN <<x>>
    ELSE IF x <= Head(s) THEN <<x>> \o s
    ELSE <<Head(s)>> \o Insert(Tail(s), x)

RECURSIVE Sorted(_)
Sorted(s) == IF s = <<>> THEN <<>> ELSE Insert(Sorted(Tail(s)), Head(s))

\* twice np.median(s): the middle element of the sorted values, or the mean of
\* the two middle ones for an even length (kept doubled to stay in the integers)
NpMedianTwice(s) ==
    LET t == Sorted(s)
        n == Len(s)
    IN  IF n % 2 = 1 THEN 2 * t[(n + 1) \div 2]
        ELSE t[n \div 2] + t[n \div 2 + 1]

RECURSIVE SumSeq(_)
SumSeq(s) == IF s = <<>> THEN 0 ELSE Head(s) + SumSeq(Tail(s))

\* mutant: the mean instead of the median
IntMean(s) == SumSeq(s) \div Len(s)

\* int(np.median(s)): int() drops the fraction of the (non-negative) float
IntMedian(s) == NpMedianTwice(s) \div 2

\* mutant: the sign of the step is wrong
Incremented(v) == v + 1

\* mutant: the decrement takes two
DecrementedByTwo(v) == v - 2

\* self.cooldown_frames -= 1, applied to the loaded value
Decremented(v) == v - 1

\* mutant: the condition forgets the cooldown
CanAnnounceCondNoCooldown(c) ==
    /\ c # last_announced_count
    /\ c > 0

\* mutant: the condition lets the last tick of the cooldown through
CanAnnounceCondOneEarly(c) ==
    /\ c # last_announced_count
    /\ c > 0
    /\ cooldown_frames <= 1

\* mutant: the condition forgets the last announced count
CanAnnounceCondNoDedup(c) ==
    /\ c > 0
    /\ cooldown_frames = 0

\* mutant: the condition lets count 0 through
CanAnnounceCondZero(c) ==
    /\ c # last_announced_count
    /\ cooldown_frames = 0

\* mutant: the audio flag is tested before the gate is asked
CanAnnounceCondAudioFirst(c) ==
    /\ audio_enabled
    /\ c # last_announced_count
    /\ c > 0
    /\ cooldown_frames = 0

\* the condition of can_announce
CanAnnounceCond(c) ==
    /\ c # last_announced_count
    /\ c > 0
    /\ cooldown_frames = 0

\* mutant: the dispatch does not look the count up in the map
ShouldDispatchAnyCount ==
    /\ announce
    /\ audio_enabled

\* mutant: the dispatch forgets what can_announce returned
ShouldDispatchNoGate ==
    /\ audio_enabled
    /\ current_count \in audio_base64

\* "should_play and current_count in audio_base64"
ShouldDispatch ==
    /\ announce
    /\ audio_enabled
    /\ current_count \in audio_base64

\* mutant: the player is given the attribute read again, not the snapshot
PlayedCountReread == person_count

\* audio_player(current_count): the count handed to the player
PlayedCount == current_count

\* mutant: the sampler takes the odd frames
SampledOdd(fc) == fc % Stride = 1

\* if self.frame_count % 2 == 0
Sampled(fc) == fc % Stride = 0

------------------------------------------------------------------------------
\* Initial state: PersonDetector.__init__, the session state, a started stream

InitDetector ==
    /\ person_count = 0
    /\ frame_count = 0
    /\ detection_history = <<>>
    /\ last_announced_count = 0
    /\ cooldown_frames = 0

InitSession ==
    /\ audio_enabled = TRUE
    /\ audio_placeholder = <<>>
    /\ playing = TRUE
    /\ recvPc = "idle"
    /\ recvTmp = 0
    /\ pollPc = "loop"
    /\ current_count = 0
    /\ announce = FALSE
    /\ ticks = cooldown_length
    /\ steady = FALSE
    /\ plays = 0

\* load_audio_base64: a file that cannot be read leaves its key out of the map
LoadedKeySets == {AudioKeys, AudioKeys \ {1}}

Init ==
    /\ InitDetector
    /\ InitSession
    /\ audio_base64 \in LoadedKeySets
    /\ detectable = 0..MaxPeople

------------------------------------------------------------------------------
\* recv, on the worker thread

\* lines 113-132: count the frame; on a sampled frame run the detector, clamp,
\* append to the window and store the median.  frame_count is a Python int
\* (no overflow) that is only ever read as frame_count % 2 (line 116), so the
\* model keeps that residue: the successor of a residue is exact.
RecvFrame(raw) ==
    /\ recvPc = "idle"
    /\ playing
    /\ frame_count' = (frame_count + 1) % Stride
    /\ IF Sampled(frame_count')
       THEN /\ detection_history' = DequeAppend(detection_history, Clamp(raw))
            /\ person_count' = IntMedian(detection_history')
            /\ recvPc' = "cooldown_test"
            /\ steady' = (steady /\ person_count' = last_announced_count)
       ELSE /\ UNCHANGED <<detection_history, person_count, recvPc, steady>>
    /\ UNCHANGED <<last_announced_count, cooldown_frames, audio_enabled,
                   audio_base64, audio_placeholder, playing, detectable,
                   recvTmp, pollPc, current_count, announce, ticks, plays>>

\* line 134: if self.cooldown_frames > 0
RecvCooldownTest ==
    /\ recvPc = "cooldown_test"
    /\ IF cooldown_frames > 0
       THEN /\ recvPc' = "cooldown_load"
            /\ UNCHANGED ticks
       ELSE /\ recvPc' = "idle"
            /\ ticks' = Min(ticks + 1, cooldown_length)
    /\ UNCHANGED <<person_count, frame_count, detection_history,
                   last_announced_count, cooldown_frames, audio_enabled,
                   audio_base64, audio_placeholder, playing, detectable,
                   recvTmp, pollPc, current_count, announce, steady, plays>>

\* line 135, first half: load self.cooldown_frames
RecvCooldownLoad ==
    /\ recvPc = "cooldown_load"
    /\ recvTmp' = cooldown_frames
    /\ recvPc' = "cooldown_store"
    /\ UNCHANGED <<person_count, frame_count, detection_history,
                   last_announced_count, cooldown_frames, audio_enabled,
                   audio_base64, audio_placeholder, playing, detectable,
                   pollPc, current_count, announce, ticks, steady, plays>>

\* line 135, second half: store the loaded value minus one; recv returns
RecvCooldownStore ==
    /\ recvPc = "cooldown_store"
    /\ cooldown_frames' = Decremented(recvTmp)
    /\ recvTmp' = 0
    /\ recvPc' = "idle"
    /\ ticks' = Min(ticks + 1, cooldown_length)
    /\ UNCHANGED <<person_count, frame_count, detection_history,
                   last_announced_count, audio_enabled, audio_base64,
                   audio_placeholder, playing, detectable, pollPc,
                   current_count, announce, steady, plays>>

\* lines 114-123: the detector raises on a sampled frame.  recv has no handler:
\* the frame is counted, nothing is appended, and the exception leaves recv
\* before lines 125-137 run.
RecvRaises ==
    /\ recvPc = "idle"
    /\ playing
    /\ Sampled((frame_count + 1) % Stride)
    /\ frame_count' = (frame_count + 1) % Stride
    /\ recvPc' = "raised"
    /\ UNCHANGED <<person_count, detection_history, last_announced_count,
                   cooldown_frames, audio_enabled, audio_base64,
                   audio_placeholder, playing, detectable, recvTmp, pollPc,
                   current_count, announce, ticks, steady, plays>>

\* line 112: the caller of recv is not part of this repository; after an
\* exception it may never call recv again (the worker stays at "raised") or
\* call it for the next frame (this step)
RecvCalledAgain ==
    /\ recvPc = "raised"
    /\ recvPc' = "idle"
    /\ UNCHANGED <<person_count, frame_count, detection_history,
                   last_announced_count, cooldown_frames, audio_enabled,
                   audio_base64, audio_placeholder, playing, detectable,
                   recvTmp, pollPc, current_count, announce, ticks, steady,
                   plays>>

------------------------------------------------------------------------------
\* The polling loop, on the script thread

\* lines 261-263: while ctx.state.playing: current_count = person_count
PollRead ==
    /\ pollPc = "loop"
    /\ IF playing
       THEN /\ current_count' = person_count
            /\ pollPc' = "gate"
       ELSE /\ pollPc' = "stopped"
            /\ UNCHANGED current_count
    /\ UNCHANGED <<person_count, frame_count, detection_history,
                   last_announced_count, cooldown_frames, audio_enabled,
                   audio_base64, audio_placeholder, playing, detectable,
                   recvPc, recvTmp, announce, ticks, steady, plays>>

\* lines 140-142 and 146: the condition of can_announce; False returns at once
CanAnnounceTest ==
    /\ pollPc = "gate"
    /\ IF CanAnnounceCond(current_count)
       THEN pollPc' = "gate_set"
       ELSE pollPc' = "dispatch"
    /\ announce' = FALSE
    /\ UNCHANGED <<person_count, frame_count, detection_history,
                   last_announced_count, cooldown_frames, audio_enabled,
                   audio_base64, audio_placeholder, playing, detectable,
                   recvPc, recvTmp, current_count, ticks, steady, plays>>

\* lines 143-145: record the count, start the cooldown, return True
CanAnnounceSet ==
    /\ pollPc = "gate_set"
    /\ last_announced_count' = current_count
    /\ cooldown_frames' = cooldown_length
    /\ announce' = TRUE
    /\ pollPc' = "dispatch"
    /\ ticks' = 0
    /\ steady' = (person_count = current_count)
    /\ plays' = 0
    /\ UNCHANGED <<person_count, frame_count, detection_history,
                   audio_enabled, audio_base64, audio_placeholder, playing,
                   detectable, recvPc, recvTmp, current_count>>

\* lines 273-294: place the audio element when the gate fired, audio is on and
\* the count has an asset; sleep.  current_count and the returned value are
\* dead after the cycle and are cleared.  st.session_state.last_ui_count
\* (lines 287-291) is written here and read nowhere else: it is left out.
PollDispatch ==
    /\ pollPc = "dispatch"
    /\ IF ShouldDispatch
       THEN /\ audio_placeholder' = <<PlayedCount>>
            /\ plays' = Min(plays + 1, 2)
       ELSE /\ UNCHANGED <<audio_placeholder, plays>>
    /\ pollPc' = "loop"
    /\ current_count' = 0
    /\ announce' = FALSE
    /\ UNCHANGED <<person_count, frame_count, detection_history,
                   last_announced_count, cooldown_frames, audio_enabled,
                   audio_base64, playing, detectable, recvPc, recvTmp, ticks,
                   steady>>

------------------------------------------------------------------------------
\* The operator

\* lines 244-252: the audio checkbox
ToggleAudio ==
    /\ playing
    /\ audio_enabled' = ~audio_enabled
    /\ UNCHANGED <<person_count, frame_count, detection_history,
                   last_announced_count, cooldown_frames, audio_base64,
                   audio_placeholder, playing, detectable, recvPc, recvTmp,
                   pollPc, current_count, announce, ticks, steady, plays>>

\* the operator stops the camera: ctx.state.playing turns False
StopSession ==
    /\ playing
    /\ playing' = FALSE
    /\ UNCHANGED <<person_count, frame_count, detection_history,
                   last_announced_count, cooldown_frames, audio_enabled,
                   audio_base64, audio_placeholder, detectable, recvPc,
                   recvTmp, pollPc, current_count, announce, ticks, steady,
                   plays>>

------------------------------------------------------------------------------
\* One stream session: the worker thread and the polling loop, interleaved at
\* every access of a shared attribute
Next ==
    \/ \E raw \in detectable : RecvFrame(raw)
    \/ RecvCooldownTest
    \/ RecvCooldownLoad
    \/ RecvCooldownStore
    \/ PollRead
    \/ CanAnnounceTest
    \/ CanAnnounceSet
    \/ PollDispatch

Spec == Init /\ [][Next]_vars

\* The count smoother alone: only the worker thread runs, and the detector may
\* return any raw count up to MaxRaw (above the cap of 5)
InitSmoother ==
    /\ InitDetector
    /\ InitSession
    /\ audio_base64 = AudioKeys
    /\ detectable = 0..MaxRaw

NextSmoother ==
    \/ \E raw \in detectable : RecvFrame(raw)
    \/ RecvCooldownTest

SpecSmoother == InitSmoother /\ [][NextSmoother]_vars

\* The worker thread alone with a detector that may raise
NextFailure ==
    \/ \E raw \in detectable : RecvFrame(raw)
    \/ RecvCooldownTest
    \/ RecvRaises
    \/ RecvCalledAgain

SpecFailure == InitSmoother /\ [][NextFailure]_vars

\* A session with its operator, who may switch the audio alerts off and on and
\* stop the camera; every asset is loaded and somebody is always in view
InitOperated ==
    /\ InitDetector
    /\ InitSession
    /\ audio_base64 = AudioKeys
    /\ detectable = 1..MaxPeople

NextOperated ==
    \/ \E raw \in detectable : RecvFrame(raw)
    \/ RecvCooldownTest
    \/ RecvCooldownLoad
    \/ RecvCooldownStore
    \/ PollRead
    \/ CanAnnounceTest
    \/ CanAnnounceSet
    \/ PollDispatch
    \/ ToggleAudio
    \/ StopSession

SpecOperated == InitOperated /\ [][NextOperated]_vars

\* A session that keeps running: frames keep arriving and recv is called for
\* each, and the polling loop wakes from every sleep, so neither thread stops
\* at a step it can take; every asset is loaded and audio stays on
InitLive ==
    /\ InitDetector
    /\ InitSession
    /\ audio_base64 = AudioKeys
    /\ detectable = 1..MaxPeople

\* a step of the worker thread, a step of the script thread: a thread has at
\* most one step it can take at a time
RecvStep ==
    \/ \E raw \in detectable : RecvFrame(raw)
    \/ RecvCooldownTest
    \/ RecvCooldownLoad
    \/ RecvCooldownStore

PollStep ==
    \/ PollRead
    \/ CanAnnounceTest
    \/ CanAnnounceSet
    \/ PollDispatch

NextLive == RecvStep \/ PollStep

Fairness == WF_vars(RecvStep) /\ WF_vars(PollStep)

SpecLive == InitLive /\ [][NextLive]_vars /\ Fairness

------------------------------------------------------------------------------
\* Steps of the polling thread that the properties speak about

\* can_announce returns True: lines 143-145 ran
GateFires == pollPc = "gate_set" /\ pollPc' = "dispatch"

\* can_announce returns False
GateRefuses == pollPc = "gate" /\ pollPc' = "dispatch"

\* the dispatch part of the cycle ran
Dispatches == pollPc = "dispatch" /\ pollPc' = "loop"

\* a sampled frame finished its pass through recv: one tick
TickEnds == recvPc # "idle" /\ recvPc' = "idle"

------------------------------------------------------------------------------
\* C1: the gate never fires while a cooldown is running: whenever can_announce
\* has decided to fire and is about to return True, cooldown_frames is 0, and
\* no decrement of recv is in flight, whatever recv did in between.
C1_FiresOnlyAtZeroCooldown ==
    pollPc = "gate_set" =>
        /\ cooldown_frames = 0
        /\ recvPc \notin {"cooldown_load", "cooldown_store"}

\* C1 witness: the gate is about to fire a second time, after an earlier
\* firing started a cooldown that recv has drained.
C1_Witness ==
    /\ pollPc = "gate_set"
    /\ last_announced_count # 0
    /\ recvPc = "cooldown_test"

\* C2: once the gate has fired for a count and person_count has stayed at that
\* count ever since, the gate does not decide to fire again, during the
\* cooldown or after it.
C2_NoRefireWhileSteady == ~(steady /\ pollPc = "gate_set")

\* C2 witness: the cooldown of a firing has run out, the count never moved,
\* and the gate is being asked again with that same count.
C2_Witness ==
    /\ steady
    /\ pollPc = "gate"
    /\ cooldown_frames = 0
    /\ ticks = cooldown_length
    /\ current_count = last_announced_count
    /\ current_count > 0

\* C3 (as claimed): a call of can_announce with stable count 0 and no cooldown
\* running leaves last_announced_count at 0.
C3_ZeroResetsLastAnnounced ==
    [][(GateRefuses /\ current_count = 0 /\ cooldown_frames = 0)
        => last_announced_count' = 0]_vars

\* C4: a stable count of 0 never produces an announce event: the gate never
\* decides to fire for 0, never returns True for 0, and no audio element for
\* count 0 is ever placed.
C4_ZeroNeverAnnounced ==
    /\ (pollPc = "gate_set" => current_count > 0)
    /\ (announce => current_count > 0)
    /\ audio_placeholder # <<0>>

\* C4 witness: the gate was asked with count 0 after an earlier announcement
\* and returned False.
C4_Witness ==
    /\ pollPc = "dispatch"
    /\ current_count = 0
    /\ ~announce
    /\ last_announced_count # 0
    /\ cooldown_frames = 0

\* C5: a firing sets cooldown_frames to exactly cooldown_length; after that
\* every tick (a sampled frame finishing recv) lowers it by exactly one while
\* it is positive and leaves it at 0 otherwise; it changes in no other step,
\* so it never skips a value, never goes below 0 and never rises without a
\* firing.
C5_CooldownCountsDown ==
    [][/\ (GateFires => cooldown_frames' = cooldown_length)
       /\ (TickEnds =>
             cooldown_frames' =
                 IF cooldown_frames > 0 THEN cooldown_frames - 1 ELSE 0)
       /\ (cooldown_frames' # cooldown_frames => GateFires \/ TickEnds)
       /\ cooldown_frames' \in 0..cooldown_length]_vars

\* C5 witness: after a firing the cooldown has been counted down to 0.
C5_Witness ==
    /\ last_announced_count # 0
    /\ cooldown_frames = 0
    /\ recvPc = "idle"
    /\ pollPc = "loop"

\* C6: between two consecutive firings at least cooldown_length ticks pass:
\* when the gate decides to fire, cooldown_length sampled frames have finished
\* since the previous firing (ticks is counted up to cooldown_length and
\* starts there before the first firing).
C6_CooldownBetweenFirings ==
    pollPc = "gate_set" => ticks = cooldown_length

\* C6 witness: the count flickers 1,2,1,2 and the gate fires for 2 after it
\* had fired for 1.
C6_Witness ==
    /\ pollPc = "gate_set"
    /\ last_announced_count = 1
    /\ current_count = 2
    /\ detection_history = <<1, 2, 1, 2, 2>>

------------------------------------------------------------------------------
\* Reference roundings of a value given doubled (m2 = 2 * value)

RoundHalfUp(m2) == (m2 + 1) \div 2

RoundHalfEven(m2) ==
    IF m2 % 2 = 0 THEN m2 \div 2
    ELSE IF ((m2 - 1) \div 2) % 2 = 0 THEN (m2 - 1) \div 2
    ELSE (m2 + 1) \div 2

\* the value of the window rounded to the nearest integer, under either rule
\* for a tie
NearestToMedian(w) ==
    LET t == Sorted(w)
        n == Len(w)
        m2 == IF n % 2 = 1 THEN 2 * t[(n + 1) \div 2]
              ELSE t[n \div 2] + t[n \div 2 + 1]
    IN  {RoundHalfUp(m2), RoundHalfEven(m2)}

\* C7 (as claimed): the stable count lies in 0..5 and is the median, rounded
\* to the nearest integer, of the window, which holds at most 5 counts, each at
\* most 5.
C7_StableIsMedianOfWindow ==
    detection_history # <<>> =>
        /\ Len(detection_history) <= HistoryMaxLen
        /\ \A i \in DOMAIN detection_history :
               detection_history[i] \in 0..MaxCount
        /\ person_count \in 0..MaxCount
        /\ person_count \in NearestToMedian(detection_history)

\* C8 (as claimed): for a window of even length the stable count is the mean
\* of the two middle counts rounded to the nearest integer.
C8_EvenWindowRoundsToNearest ==
    (detection_history # <<>> /\ Len(detection_history) % 2 = 0) =>
        LET t == Sorted(detection_history)
            h == Len(detection_history) \div 2
        IN  \/ person_count = RoundHalfUp(t[h] + t[h + 1])
            \/ person_count = RoundHalfEven(t[h] + t[h + 1])

\* position i of window w holds a value that differs from all the others,
\* which are equal to one another
SpuriousAt(w, i) ==
    /\ \A j \in DOMAIN w \ {i} : w[j] # w[i]
    /\ \A j, k \in DOMAIN w \ {i} : w[j] = w[k]

\* a window of length at least minLen with a single spurious count yields the
\* value of the other counts
SpuriousIgnored(minLen) ==
    \A i \in DOMAIN detection_history :
        (Len(detection_history) >= minLen /\ SpuriousAt(detection_history, i))
            => \A j \in DOMAIN detection_history \ {i} :
                   person_count = detection_history[j]

\* C9 (as claimed): for every window length from 2 up to the capacity
C9_SpuriousIgnoredFromTwo == SpuriousIgnored(2)

\* C9 (amended): for every window length from 3 up to the capacity, a window
\* holding one spurious count among otherwise equal counts yields the value of
\* the others.
C9_SpuriousIgnoredFromThree == SpuriousIgnored(3)

\* C9 witness: a full window of 3s with one frame misread as 5 (or more).
C9_Witness ==
    /\ detection_history = <<3, 3, 5, 3, 3>>
    /\ person_count = 3

\* C10: when the gate fires for a count that has no audio asset, the firing
\* still records the count and starts the cooldown, and the dispatch that
\* follows places no audio element and leaves the gate state as it is.
C10_MissingAssetAdvancesGate ==
    [][/\ (GateFires /\ current_count \notin audio_base64 =>
             /\ last_announced_count' = current_count
             /\ cooldown_frames' = cooldown_length)
       /\ (Dispatches /\ announce /\ current_count \notin audio_base64 =>
             /\ audio_placeholder' = audio_placeholder
             /\ last_announced_count' = current_count
             /\ cooldown_frames' = cooldown_frames)]_vars

\* C10 witness: a cycle that fired for count 1, whose asset is missing, has
\* finished: nothing was placed, the count is recorded, the cooldown runs.
C10_Witness ==
    /\ pollPc = "loop"
    /\ last_announced_count = 1
    /\ 1 \notin audio_base64
    /\ audio_placeholder = <<>>
    /\ cooldown_frames > 0

------------------------------------------------------------------------------
\* the audio player is called in this step
Plays == Dispatches /\ plays' = plays + 1

\* a frame enters recv in this step
FrameEnters == recvPc = "idle" /\ frame_count' # frame_count

\* a step of the worker thread, a step of the polling loop
RecvMoves == recvPc' # recvPc \/ frame_count' # frame_count

PollMoves == pollPc' # pollPc

\* can_announce is called and its condition is evaluated in this step
GateTested == pollPc = "gate" /\ pollPc' # "gate"

\* C11: the audio player is called at most once per firing and never without
\* one: it is called only in a cycle whose can_announce returned True, for the
\* count that firing recorded, and the returned value is used up by the cycle.
C11_OnePlayPerFiring ==
    [][/\ plays' <= 1
       /\ (Plays => announce /\ current_count = last_announced_count)
       /\ (Dispatches => ~announce')]_vars

\* C11 witness: after a firing was played, a later cycle with audio on and a
\* different count that has an asset, refused by the gate, plays nothing.
C11_Witness ==
    /\ plays = 1
    /\ pollPc = "dispatch"
    /\ ~announce
    /\ audio_enabled
    /\ current_count \in audio_base64
    /\ current_count # last_announced_count

\* C12 (as claimed): once the session has stopped playing, the polling loop
\* neither calls can_announce nor plays audio, and no frame enters detection.
C12_NothingAfterTeardown ==
    [][~playing => ~GateTested /\ ~GateFires /\ ~Plays /\ ~FrameEnters]_vars

\* C13 (as claimed): recv writes the window and the stable count and no field
\* of the announcement state; the polling loop writes last_announced_count and
\* cooldown_frames and neither the window nor the stable count.
C13_SingleWriter ==
    [][/\ (RecvMoves => UNCHANGED <<last_announced_count, cooldown_frames>>)
       /\ (PollMoves => UNCHANGED <<detection_history, person_count>>)
       /\ (detection_history' # detection_history => RecvMoves)
       /\ (person_count' # person_count => RecvMoves)
       /\ (last_announced_count' # last_announced_count => PollMoves)
       /\ (cooldown_frames' # cooldown_frames => PollMoves)]_vars

\* C13 (amended): recv is the only writer of the window and the stable count
\* and never writes last_announced_count; the polling loop is the only writer
\* of last_announced_count and never writes the window or the stable count;
\* cooldown_frames has two writers: the polling loop only sets it to
\* cooldown_length, recv only lowers it.
C13_WritersOfEachField ==
    [][/\ (RecvMoves =>
             /\ last_announced_count' = last_announced_count
             /\ cooldown_frames' <= cooldown_frames)
       /\ (PollMoves =>
             /\ UNCHANGED <<detection_history, person_count>>
             /\ cooldown_frames' \in {cooldown_frames, cooldown_length})
       /\ (detection_history' # detection_history => RecvMoves)
       /\ (person_count' # person_count => RecvMoves)
       /\ (last_announced_count' # last_announced_count => PollMoves)]_vars

\* C13 witness: a cooldown set by the polling loop has been lowered by recv.
C13_Witness ==
    /\ cooldown_frames = 7
    /\ last_announced_count = 2
    /\ recvPc = "idle"
    /\ pollPc = "loop"

\* C14 (as claimed): a call of can_announce made while the cooldown is running
\* lowers cooldown_frames by one, returns False and leaves
\* last_announced_count unchanged.
C14_GateCallDecrements ==
    [][(GateTested /\ cooldown_frames > 0) =>
          /\ cooldown_frames' = cooldown_frames - 1
          /\ pollPc' = "dispatch"
          /\ ~announce'
          /\ last_announced_count' = last_announced_count]_vars

\* C14 (amended): a call of can_announce made while the cooldown is running
\* returns False and leaves both last_announced_count and cooldown_frames
\* unchanged, whatever the count passed in.
C14_GateCallLeavesCooldown ==
    [][(GateTested /\ cooldown_frames > 0) =>
          /\ cooldown_frames' = cooldown_frames
          /\ pollPc' = "dispatch"
          /\ ~announce'
          /\ last_announced_count' = last_announced_count]_vars

\* C14 witness: right after a firing, before any tick, the gate was asked with
\* another nonzero count and returned False with the cooldown still full.
C14_Witness ==
    /\ pollPc = "dispatch"
    /\ ~announce
    /\ cooldown_frames = cooldown_length
    /\ ticks = 0
    /\ current_count > 0
    /\ current_count # last_announced_count

\* C15 (as claimed): every sampled frame, one whose inference fails included,
\* appends an observation to the window (0 for a failure), recomputes the
\* stable count from it and goes on to the rest of recv.
C15_FailureCountsAsZero ==
    [][(FrameEnters /\ frame_count' % 2 = 0) =>
          /\ recvPc' = "cooldown_test"
          /\ \E v \in 0..MaxCount :
                 detection_history' = DequeAppend(detection_history, v)
          /\ person_count' = IntMedian(detection_history')]_vars

\* C16: the frame counter goes up by one (modulo 2) for every frame; a frame
\* goes to detection exactly when the new counter is 0 modulo 2; a frame that
\* does not returns at once and leaves the window, the stable count and the
\* announcement state unchanged.
C16_SamplerStride ==
    [][FrameEnters =>
          /\ frame_count' = (frame_count + 1) % 2
          /\ IF frame_count' % 2 = 0
             THEN /\ recvPc' = "cooldown_test"
                  /\ Len(detection_history') =
                         Min(Len(detection_history) + 1, HistoryMaxLen)
             ELSE /\ recvPc' = "idle"
                  /\ UNCHANGED <<detection_history, person_count,
                                 last_announced_count, cooldown_frames>>]_vars

\* C16 witness: a frame that was not sampled has passed while the window was
\* full and a cooldown was running.
C16_Witness ==
    /\ frame_count = 1
    /\ recvPc = "idle"
    /\ Len(detection_history) = HistoryMaxLen
    /\ cooldown_frames > 0

\* C17: in every interleaving of recv's test, load and store with
\* can_announce's test and set, cooldown_frames stays in 0..cooldown_length,
\* and the value recv is about to store is the current value minus one: no
\* set of the cooldown falls between recv's load and its store.
C17_NoStaleDecrement ==
    /\ cooldown_frames \in 0..cooldown_length
    /\ (recvPc = "cooldown_load" => cooldown_frames > 0)
    /\ (recvPc = "cooldown_store" =>
            recvTmp = cooldown_frames /\ recvTmp > 0)

\* C17 witness: recv has loaded the last tick of a cooldown and not yet stored
\* it, while the polling loop is asking the gate with a new nonzero count.
C17_Witness ==
    /\ recvPc = "cooldown_store"
    /\ recvTmp = 1
    /\ pollPc = "gate"
    /\ current_count > 0
    /\ current_count # last_announced_count

\* C18: a nonzero count that person_count settles on for good is eventually
\* announced: the gate fires for it and its audio element is placed.
C18_SettledCountIsAnnounced ==
    \A c \in 1..MaxPeople :
        <>[](person_count = c)
            => <>[](last_announced_count = c /\ audio_placeholder = <<c>>)

\* C18 witness: the window holds only 2s; the gate has fired for 2, its audio
\* element is placed, the count has not moved since and the cooldown is over.
C18_Witness ==
    /\ detection_history = <<2, 2, 2, 2, 2>>
    /\ last_announced_count = 2
    /\ audio_placeholder = <<2>>
    /\ steady
    /\ cooldown_frames = 0

\* C19: the gate is asked before the audio flag is looked at: whether it fires
\* depends on the count, the last announced count and the cooldown only, a
\* firing records the count and starts the cooldown also with audio off, a
\* cycle with audio off plays nothing, and the player is only ever called in
\* the cycle of a firing, so a count consumed with audio off is not played
\* later unless the gate fires anew.
C19_GateAdvancesWhileMuted ==
    [][/\ (GateTested =>
             (pollPc' = "gate_set" <=>
                 /\ current_count > 0
                 /\ current_count # last_announced_count
                 /\ cooldown_frames = 0))
       /\ (GateFires =>
             /\ last_announced_count' = current_count
             /\ cooldown_frames' = cooldown_length)
       /\ (Dispatches /\ ~audio_enabled =>
             UNCHANGED <<audio_placeholder, plays>>)
       /\ (Plays => announce /\ audio_enabled)]_vars

\* C19 witness: count 2 was consumed with audio off (recorded, never played);
\* audio is on again, the gate was asked with 2 and nothing is played.
C19_Witness ==
    /\ audio_enabled
    /\ plays = 0
    /\ audio_placeholder = <<>>
    /\ last_announced_count = 2
    /\ pollPc = "dispatch"
    /\ current_count = 2
    /\ ~announce
    /\ cooldown_frames = 0

\* C20: the count handed to the audio player is the snapshot the cycle read
\* and passed to can_announce: it equals last_announced_count as that firing
\* set it and lies in 1..5, whatever person_count has become.
C20_PlayedCountIsSnapshot ==
    [][Plays =>
          /\ audio_placeholder' = <<current_count>>
          /\ current_count = last_announced_count
          /\ current_count \in 1..MaxCount]_vars

\* C20 witness: 1 was fired and played although person_count had become 2
\* before the firing (no sampled frame has entered or finished since).
C20_Witness ==
    /\ pollPc = "loop"
    /\ plays = 1
    /\ audio_placeholder = <<1>>
    /\ last_announced_count = 1
    /\ person_count = 2
    /\ recvPc = "idle"
    /\ ticks = 0

====
